---- MODULE Spec2Model ----
(***************************************************************************)
(* Model of twitter.checkstyle: PythonFile (logical-line index and line    *)
(* queries), Nit (anchor resolution), CheckstylePlugin (affected_lines-line      *)
(* filtering) and the Indentation plugin.                                  *)
(*                                                                         *)
(* A source text is a sequence of physical lines, each of a lexical kind;  *)
(* the tokenizer adapter turns it into (type, text, line) tokens the way   *)
(* tokenize.generate_tokens does.  Token texts are sequences of characters *)
(* so that len(), isspace(), == '\n' and filter(None, ...) are computed.   *)
(***************************************************************************)
EXTENDS Integers, Sequences, FiniteSets, TLC

\* ---------------------------------------------------------------- bounds
MaxLines == 4
MaxDepth == 2
MaxNits == 2
MaxPluginLines == 2
MaxAffected == 2

\* ------------------------------------------------------------- constants
\* an optional value: None, or Some(v)
None == <<>>
Some(v) == <<v>>
Value(o) == o[1]

INDENT_LEVEL == 2

\* token types of the tokenize module
NAME == "NAME"
OP == "OP"
NEWLINE == "NEWLINE"
NL == "NL"
COMMENT == "COMMENT"
INDENT == "INDENT"
DEDENT == "DEDENT"
ENDMARKER == "ENDMARKER"

\* faulty variant: comments are not skipped
SKIP_TOKENS_noComment == {NL, DEDENT}

SKIP_TOKENS == {COMMENT, NL, DEDENT}

\* token texts
LF == <<"\n">>
CRLF == <<"\r", "\n">>
Empty == <<>>

Spaces(n) == [i \in 1..n |-> " "]

\* str.isspace(): non-empty and only whitespace characters
IsSpace(text) ==
  /\ Len(text) > 0
  /\ \A i \in 1..Len(text) : text[i] \in {" ", "\t", "\n", "\r"}

\* --------------------------------------------------------- source texts
Widths == {k * INDENT_LEVEL : k \in 0..MaxDepth}

\* kinds of physical line:
\*   blank, comment        no logical content
\*   stmt                  a one-line simple statement
\*   header                a one-line compound-statement header ("if x:")
\*   open, cont, close     first / middle / last line of a parenthesized
\*                         statement spanning several physical lines
LineSet ==
  [kind : {"stmt", "header", "open"}, indent : Widths]
    \cup [kind : {"blank", "comment", "cont", "close"}, indent : {0}]

Max(a, b) == IF a > b THEN a ELSE b
Min(a, b) == IF a < b THEN a ELSE b

Last(s) == s[Len(s)]
Front(s) == SubSeq(s, 1, Len(s) - 1)

Top(stack) == IF stack = <<>> THEN 0 ELSE Last(stack)

RECURSIVE PopTo(_, _)
PopTo(stack, w) ==
  IF stack # <<>> /\ Last(stack) > w THEN PopTo(Front(stack), w) ELSE stack

\* The grammar state after a prefix of lines: the indent stack, whether a
\* parenthesis is open, whether a block is awaited, or "bad" on a syntax
\* or indentation error.
BadState == [bad |-> TRUE, stack |-> <<>>, paren |-> FALSE, await |-> FALSE]

StepSyntax(st, ln) ==
  IF st.bad THEN st
  ELSE IF ln.kind \in {"blank", "comment"} THEN st
  ELSE IF ln.kind = "cont" THEN (IF st.paren THEN st ELSE BadState)
  ELSE IF ln.kind = "close"
    THEN (IF st.paren THEN [st EXCEPT !.paren = FALSE] ELSE BadState)
  ELSE \* stmt, header, open
    IF st.paren THEN BadState
    ELSE IF st.await
      THEN IF ln.indent > Top(st.stack)
             THEN [bad |-> FALSE, stack |-> Append(st.stack, ln.indent),
                   paren |-> ln.kind = "open", await |-> ln.kind = "header"]
             ELSE BadState
      ELSE IF ln.indent > Top(st.stack) \/ Top(PopTo(st.stack, ln.indent)) # ln.indent
             THEN BadState
             ELSE [bad |-> FALSE, stack |-> PopTo(st.stack, ln.indent),
                   paren |-> ln.kind = "open", await |-> ln.kind = "header"]

RECURSIVE SyntaxState(_)
SyntaxState(lines) ==
  IF lines = <<>>
    THEN [bad |-> FALSE, stack |-> <<>>, paren |-> FALSE, await |-> FALSE]
    ELSE StepSyntax(SyntaxState(Front(lines)), Last(lines))

\* ast.parse(blob, filename) succeeds
Parses(lines) ==
  LET st == SyntaxState(lines) IN ~st.bad /\ ~st.paren /\ ~st.await

RECURSIVE Prefixes(_)
Prefixes(n) ==
  IF n = 0 THEN {<<>>}
  ELSE LET shorter == Prefixes(n - 1) IN
       shorter \cup
         {Append(p, ln) : <<p, ln>> \in
            {x \in {q \in shorter : Len(q) = n - 1} \X LineSet :
               ~StepSyntax(SyntaxState(x[1]), x[2]).bad}}

\* A blob: its physical lines, the newline convention, and whether the
\* last line ends with a newline.  A last line that is blank and has no
\* newline is no line at all.
Blobs ==
  {b \in [lines : {p \in Prefixes(MaxLines) : Parses(p)},
          eol : {LF, CRLF}, finalEol : BOOLEAN] :
     /\ (b.lines = <<>> => b.finalEol /\ b.eol = LF)
     /\ (~b.finalEol => Last(b.lines).kind # "blank")}

\* len(blob.splitlines())
LineCount(b) == Len(b.lines)

\* ------------------------------------------------------ tokenizer adapter
Tok(type, text, line) == [type |-> type, text |-> text, line |-> line]

\* INDENT / DEDENT tokens in front of a statement at width w on line i
RECURSIVE Dedents(_, _, _)
Dedents(stack, w, i) ==
  IF stack # <<>> /\ Last(stack) > w
    THEN <<Tok(DEDENT, Empty, i)>> \o Dedents(Front(stack), w, i)
    ELSE <<>>

IndentToks(stack, w, i) ==
  IF w > Top(stack) THEN <<Tok(INDENT, Spaces(w), i)>> ELSE Dedents(stack, w, i)

IndentStack(stack, w) ==
  IF w > Top(stack) THEN Append(stack, w) ELSE PopTo(stack, w)

\* The line terminator as the tokenizer reads it on line i: the blob's
\* newline, or nothing on a last line without one.
EolText(b, i) == IF i < LineCount(b) \/ b.finalEol THEN b.eol ELSE Empty

\* The NEWLINE token closing a statement on line i.  On a last line with
\* no newline the tokenizer either adds a NEWLINE token with empty text
\* (implicit) or goes straight to ENDMARKER, depending on its version.
Terminator(b, implicit, i) ==
  IF i < LineCount(b) \/ b.finalEol THEN <<Tok(NEWLINE, b.eol, i)>>
  ELSE IF implicit THEN <<Tok(NEWLINE, Empty, i)>>
  ELSE <<>>

LineToks(b, implicit, stack, i) ==
  LET ln == b.lines[i] IN
  CASE ln.kind = "blank" -> <<Tok(NL, EolText(b, i), i)>>
    [] ln.kind = "comment" ->
         <<Tok(COMMENT, <<"#">>, i), Tok(NL, EolText(b, i), i)>>
    [] ln.kind = "stmt" ->
         IndentToks(stack, ln.indent, i) \o <<Tok(NAME, <<"x">>, i)>>
           \o Terminator(b, implicit, i)
    [] ln.kind = "header" ->
         IndentToks(stack, ln.indent, i)
           \o <<Tok(NAME, <<"i", "f">>, i), Tok(NAME, <<"x">>, i), Tok(OP, <<":">>, i)>>
           \o Terminator(b, implicit, i)
    [] ln.kind = "open" ->
         IndentToks(stack, ln.indent, i)
           \o <<Tok(NAME, <<"x">>, i), Tok(OP, <<"(">>, i), Tok(NL, EolText(b, i), i)>>
    [] ln.kind = "cont" ->
         <<Tok(NAME, <<"y">>, i), Tok(NL, EolText(b, i), i)>>
    [] ln.kind = "close" ->
         <<Tok(OP, <<")">>, i)>> \o Terminator(b, implicit, i)

RECURSIVE TokenizeFrom(_, _, _, _)
TokenizeFrom(b, implicit, stack, i) ==
  IF i > LineCount(b)
    THEN Dedents(stack, 0, i) \o <<Tok(ENDMARKER, Empty, i)>>
    ELSE LET ln == b.lines[i]
             stack2 == IF ln.kind \in {"stmt", "header", "open"}
                         THEN IndentStack(stack, ln.indent) ELSE stack
         IN LineToks(b, implicit, stack, i) \o TokenizeFrom(b, implicit, stack2, i + 1)

\* tokenize.generate_tokens(StringIO(blob).readline)
iter_tokens(b, implicit) == TokenizeFrom(b, implicit, <<>>, 1)

\* ------------------------------------------------------------------ state
VARIABLES
  blob,               \* PythonFile._blob
  implicit,           \* the tokenizer's treatment of a missing last newline
  tokens,             \* the token stream of blob
  pos,                \* iter_logical_lines: tokens consumed so far
  contents,           \* iter_logical_lines: buffered token texts
  line_number_start,  \* iter_logical_lines: candidate start line, or None
  yielded,            \* the triples iter_logical_lines has yielded
  logical_lines,      \* PythonFile._logical_lines: start -> triple
  pc,                 \* "scan" while __init__ runs, "done", or "error"
  result,             \* outcome of the last query on the file
  affected_lines,     \* CheckstylePlugin._affected_lines: None or Some(set)
  emitted,            \* anchors of the nits that nits() has produced
  out,                \* anchors of the nits that iterating the plugin yielded
  ppc,                \* plugin: "none", "iter", "done" or "error"
  ipos,               \* Indentation.nits: tokens consumed so far
  indents,            \* Indentation.nits: stack of INDENT token texts
  indent_nits,        \* the errors Indentation.nits has yielded
  ipc                 \* Indentation.nits: "none", "run", "done" or "error"

fileVars == <<blob, implicit, tokens, pos, contents, line_number_start,
              yielded, logical_lines, pc>>

pluginVars == <<affected_lines, emitted, out, ppc>>

indentVars == <<ipos, indents, indent_nits, ipc>>

NoResult == [op |-> "none"]

\* ------------------------------------------- PythonFile.iter_logical_lines
RECURSIVE TrimHead(_, _)
TrimHead(start, cs) ==
  IF cs = <<>> THEN [err |-> TRUE]
  ELSE IF cs[1] = LF THEN TrimHead(start + 1, Tail(cs))
  ELSE [err |-> FALSE, start |-> start, contents |-> cs]

RECURSIVE TrimTail(_, _)
TrimTail(end, cs) ==
  IF cs = <<>> THEN [err |-> TRUE]
  ELSE IF Last(cs) = LF THEN TrimTail(end - 1, Front(cs))
  ELSE [err |-> FALSE, end |-> end, contents |-> cs]

\* (start, end + 1, indent), or an IndexError when the buffer runs empty
translate_logical_line(start, end, cs) ==
  LET h == TrimHead(start, cs) IN
  IF h.err THEN [err |-> TRUE]
  ELSE LET t == TrimTail(end, h.contents) IN
       IF t.err THEN [err |-> TRUE]
       ELSE [err |-> FALSE,
             triple |-> <<h.start, t.end + 1,
                          IF IsSpace(t.contents[1]) THEN Len(t.contents[1]) ELSE 0>>]

\* list(filter(None, contents)): the non-empty texts
FilterNone(cs) == SelectSeq(cs, LAMBDA t : t # Empty)

\* end line handed to translate_logical_line
EndLine(tok) == tok.line + (IF tok.type = NEWLINE THEN 1 ELSE 0 - 1)

Scanning == pc = "scan" /\ pos < Len(tokens)

\* a COMMENT, NL or DEDENT token: continue
SkipToken ==
  /\ Scanning
  /\ tokens[pos + 1].type \in SKIP_TOKENS
  /\ pos' = pos + 1
  /\ UNCHANGED <<blob, implicit, tokens, contents, line_number_start, yielded,
                 logical_lines, pc, result, pluginVars, indentVars>>

\* the first buffered token fixes the candidate start
StartToken ==
  /\ Scanning
  /\ tokens[pos + 1].type \notin SKIP_TOKENS
  /\ line_number_start = None
  /\ pos' = pos + 1
  /\ contents' = Append(contents, tokens[pos + 1].text)
  /\ line_number_start' = Some(tokens[pos + 1].line)
  /\ UNCHANGED <<blob, implicit, tokens, yielded, logical_lines, pc, result, pluginVars, indentVars>>

\* a later token that does not end the logical line
AppendToken ==
  /\ Scanning
  /\ tokens[pos + 1].type \notin SKIP_TOKENS
  /\ line_number_start # None
  /\ tokens[pos + 1].type \notin {NEWLINE, ENDMARKER}
  /\ pos' = pos + 1
  /\ contents' = Append(contents, tokens[pos + 1].text)
  /\ UNCHANGED <<blob, implicit, tokens, line_number_start, yielded,
                 logical_lines, pc, result, pluginVars, indentVars>>

\* a NEWLINE or ENDMARKER token ends the logical line: yield the triple,
\* which __init__ stores under its start
YieldToken ==
  /\ Scanning
  /\ tokens[pos + 1].type \notin SKIP_TOKENS
  /\ line_number_start # None
  /\ tokens[pos + 1].type \in {NEWLINE, ENDMARKER}
  /\ LET tok == tokens[pos + 1]
         tr == translate_logical_line(Value(line_number_start), EndLine(tok),
                                      FilterNone(Append(contents, tok.text)))
     IN IF tr.err
          THEN /\ pc' = "error"
               /\ UNCHANGED <<yielded, logical_lines>>
          ELSE /\ pc' = pc
               /\ yielded' = Append(yielded, tr.triple)
               /\ logical_lines' =
                    [k \in DOMAIN logical_lines \cup {tr.triple[1]} |->
                       IF k = tr.triple[1] THEN tr.triple ELSE logical_lines[k]]
  /\ pos' = pos + 1
  /\ contents' = <<>>
  /\ line_number_start' = None
  /\ UNCHANGED <<blob, implicit, tokens, result, pluginVars, indentVars>>

\* the token stream is exhausted: __init__ returns
Finish ==
  /\ pc = "scan"
  /\ pos = Len(tokens)
  /\ pc' = "done"
  /\ UNCHANGED <<blob, implicit, tokens, pos, contents, line_number_start,
                 yielded, logical_lines, result, pluginVars, indentVars>>

\* ------------------------------------------------- PythonFile.line_range
\* len(self._lines): the physical lines and the unused slot 0
LinesLen == LineCount(blob) + 1

\* faulty variant: the upper bound test is off by one
line_range_offByOne(n) ==
  IF n <= 0 \/ n > LinesLen THEN [err |-> TRUE]
  ELSE IF n \notin DOMAIN logical_lines
    THEN [err |-> FALSE, start |-> n, stop |-> n + 1]
    ELSE [err |-> FALSE, start |-> logical_lines[n][1], stop |-> logical_lines[n][2]]

line_range(n) ==
  IF n <= 0 \/ n >= LinesLen THEN [err |-> TRUE]
  ELSE IF n \notin DOMAIN logical_lines
    THEN [err |-> FALSE, start |-> n, stop |-> n + 1]
    ELSE [err |-> FALSE, start |-> logical_lines[n][1], stop |-> logical_lines[n][2]]

\* self._lines[slice(start, stop)]: list slicing stops at the list's end
SliceLines(start, stop) ==
  [i \in 1..Max(0, Min(stop, LinesLen) - start) |-> start + i - 1]

QueryLines == (0 - 1)..(MaxLines + 1)

LineRange(n) ==
  /\ pc = "done"
  /\ result' = [op |-> "line_range", n |-> n, range |-> line_range(n)]
  /\ UNCHANGED <<fileVars, pluginVars, indentVars>>

GetItem(n) ==
  /\ pc = "done"
  /\ LET r == line_range(n) IN
     result' = [op |-> "getitem", n |-> n, range |-> r,
                text |-> IF r.err THEN <<>> ELSE SliceLines(r.start, r.stop)]
  /\ UNCHANGED <<fileVars, pluginVars, indentVars>>

\* -------------------------------------------------------------------- Nit
\* '%03d' % n for n >= 0: the decimal digits, zero-padded to three
RECURSIVE Digits(_)
Digits(n) == IF n < 10 THEN <<n>> ELSE Append(Digits(n \div 10), n % 10)

Pad3(n) ==
  LET d == Digits(n) IN [i \in 1..(3 - Len(d)) |-> 0] \o d

Dash == <<"-">>
Star == <<"*">>

\* if self._line_number: None and 0 are both false
Truthy(anchor) == anchor # None /\ Value(anchor) # 0

\* Nit.line_number: the rendered anchor, None when the anchor is not
\* truthy, or the IndexError of line_range
NitLineNumber(anchor) ==
  IF Truthy(anchor)
    THEN LET r == line_range(Value(anchor)) IN
         IF r.err THEN [err |-> TRUE]
         ELSE IF r.stop - r.start > 1
           THEN [err |-> FALSE, text |-> Some(Pad3(r.start) \o Dash \o Pad3(r.stop - 1))]
           ELSE [err |-> FALSE, text |-> Some(Pad3(r.start))]
    ELSE [err |-> FALSE, text |-> None]

\* Nit.message: the part that depends on the anchor, self.line_number or '*'
NitMessage(anchor) ==
  LET ln == NitLineNumber(anchor) IN
  IF ln.err THEN [err |-> TRUE]
  ELSE [err |-> FALSE, text |-> IF ln.text = None THEN Star ELSE Value(ln.text)]

\* Nit.lines
NitLines(anchor) ==
  IF Truthy(anchor)
    THEN LET r == line_range(Value(anchor)) IN
         IF r.err THEN [err |-> TRUE]
         ELSE [err |-> FALSE, lines |-> SliceLines(r.start, r.stop)]
    ELSE [err |-> FALSE, lines |-> <<>>]

Anchors == {None} \cup {Some(n) : n \in QueryLines}

\* str(Nit(severity, python_file, message, anchor)): message, then lines
NitStr(anchor) ==
  /\ pc = "done"
  /\ LET m == NitMessage(anchor)
         l == NitLines(anchor)
     IN result' = IF m.err \/ l.err
                    THEN [op |-> "nit", anchor |-> anchor, err |-> TRUE]
                    ELSE [op |-> "nit", anchor |-> anchor, err |-> FALSE,
                          line_number |-> m.text, lines |-> l.lines]
  /\ UNCHANGED <<fileVars, pluginVars, indentVars>>

\* ------------------------------------------------------- CheckstylePlugin
\* line_filter: absent, or a producer of a few physical-line numbers
LineFilters ==
  {None} \cup {Some(S) : S \in {T \in SUBSET (1..LineCount(blob)) :
                                  Cardinality(T) <= MaxAffected}}

\* the anchors of the nits a plugin produces: none, a line of the file, or
\* a line just outside it
NitAnchors == {None} \cup {Some(n) : n \in 0..(LineCount(blob) + 1)}

\* CheckstylePlugin.__init__: materialize the affected lines
NewPlugin(line_filter) ==
  /\ pc = "done"
  /\ ppc = "none"
  /\ affected_lines' = line_filter
  /\ ppc' = "iter"
  /\ UNCHANGED <<fileVars, result, emitted, out, indentVars>>

\* __iter__: nits() produces a nit that has no anchor, or no restriction
\* is active: it is yielded
IterUnfiltered(anchor) ==
  /\ ppc = "iter"
  /\ Len(emitted) < MaxNits
  /\ anchor = None \/ affected_lines = None
  /\ emitted' = Append(emitted, anchor)
  /\ out' = Append(out, anchor)
  /\ UNCHANGED <<fileVars, result, affected_lines, ppc, indentVars>>

\* any(line in self._affected_lines for line in range(start, stop))
AnyAffected(r) == \E line \in r.start..(r.stop - 1) : line \in Value(affected_lines)

\* faulty variant: only the anchor line itself is tested, not its range
IterFiltered_anchorOnly(anchor) ==
  /\ ppc = "iter"
  /\ Len(emitted) < MaxNits
  /\ anchor # None /\ affected_lines # None
  /\ emitted' = Append(emitted, anchor)
  /\ LET nit_slice == line_range(Value(anchor)) IN
     IF nit_slice.err
       THEN ppc' = "error" /\ out' = out
       ELSE /\ ppc' = ppc
            /\ out' = IF Value(anchor) \in Value(affected_lines) THEN Append(out, anchor) ELSE out
  /\ UNCHANGED <<fileVars, result, affected_lines, indentVars>>

\* __iter__: an anchored nit under a restriction is yielded when its line
\* range touches an affected line; line_range may raise
IterFiltered(anchor) ==
  /\ ppc = "iter"
  /\ Len(emitted) < MaxNits
  /\ anchor # None /\ affected_lines # None
  /\ emitted' = Append(emitted, anchor)
  /\ LET nit_slice == line_range(Value(anchor)) IN
     IF nit_slice.err
       THEN ppc' = "error" /\ out' = out
       ELSE /\ ppc' = ppc
            /\ out' = IF AnyAffected(nit_slice) THEN Append(out, anchor) ELSE out
  /\ UNCHANGED <<fileVars, result, affected_lines, indentVars>>

\* nits() is exhausted
IterStop ==
  /\ ppc = "iter"
  /\ ppc' = "done"
  /\ UNCHANGED <<fileVars, result, affected_lines, emitted, out, indentVars>>

\* ------------------------------------------------------- Indentation.nits
\* the plugin is built on the file and nits() starts on a fresh token stream
StartIndentation ==
  /\ pc = "done"
  /\ ipc = "none"
  /\ ipc' = "run"
  /\ UNCHANGED <<fileVars, result, pluginVars, ipos, indents, indent_nits>>

Running == ipc = "run" /\ ipos < Len(tokens)

\* faulty variant: the width is compared with 0 instead of the stack top
IndentToken_noStack ==
  /\ Running
  /\ tokens[ipos + 1].type = INDENT
  /\ LET tok == tokens[ipos + 1]
         current_indent == Len(tok.text)
     IN /\ indent_nits' = IF current_indent # INDENT_LEVEL
                      THEN Append(indent_nits, [line |-> tok.line,
                                          observed |-> current_indent,
                                          expected |-> INDENT_LEVEL])
                      ELSE indent_nits
        /\ indents' = Append(indents, tok.text)
  /\ ipos' = ipos + 1
  /\ UNCHANGED <<fileVars, result, pluginVars, ipc>>

\* an INDENT token: compare with the stack top, report, push
IndentToken ==
  /\ Running
  /\ tokens[ipos + 1].type = INDENT
  /\ LET tok == tokens[ipos + 1]
         last_indent == IF indents # <<>> THEN Len(Last(indents)) ELSE 0
         current_indent == Len(tok.text)
     IN /\ indent_nits' = IF current_indent - last_indent # INDENT_LEVEL
                      THEN Append(indent_nits, [line |-> tok.line,
                                          observed |-> current_indent - last_indent,
                                          expected |-> INDENT_LEVEL])
                      ELSE indent_nits
        /\ indents' = Append(indents, tok.text)
  /\ ipos' = ipos + 1
  /\ UNCHANGED <<fileVars, result, pluginVars, ipc>>

\* indents.pop(): an IndexError on an empty stack
DedentToken ==
  /\ Running
  /\ tokens[ipos + 1].type = DEDENT
  /\ IF indents = <<>>
       THEN ipc' = "error" /\ indents' = indents
       ELSE ipc' = ipc /\ indents' = Front(indents)
  /\ ipos' = ipos + 1
  /\ UNCHANGED <<fileVars, result, pluginVars, indent_nits>>

OtherToken ==
  /\ Running
  /\ tokens[ipos + 1].type \notin {INDENT, DEDENT}
  /\ ipos' = ipos + 1
  /\ UNCHANGED <<fileVars, result, pluginVars, indents, indent_nits, ipc>>

IndentationDone ==
  /\ ipc = "run"
  /\ ipos = Len(tokens)
  /\ ipc' = "done"
  /\ UNCHANGED <<fileVars, result, pluginVars, ipos, indents, indent_nits>>

\* ---------------------------------------------------------- specification
vars == <<blob, implicit, tokens, pos, contents, line_number_start, yielded,
          logical_lines, pc, result, pluginVars, indentVars>>

Init ==
  /\ blob \in Blobs
  /\ implicit \in BOOLEAN
  /\ (implicit => ~blob.finalEol)
  /\ tokens = iter_tokens(blob, implicit)
  /\ pos = 0
  /\ contents = <<>>
  /\ line_number_start = None
  /\ yielded = <<>>
  /\ logical_lines = <<>>
  /\ pc = "scan"
  /\ result = NoResult
  /\ affected_lines = None
  /\ emitted = <<>>
  /\ out = <<>>
  /\ ppc = "none"
  /\ ipos = 0
  /\ indents = <<>>
  /\ indent_nits = <<>>
  /\ ipc = "none"

Next ==
  \/ SkipToken
  \/ StartToken
  \/ AppendToken
  \/ YieldToken
  \/ Finish
  \/ \E n \in QueryLines : LineRange(n)
  \/ \E n \in QueryLines : GetItem(n)

Spec == Init /\ [][Next]_vars

\* nits rendered against a constructed file
NextNit ==
  \/ SkipToken
  \/ StartToken
  \/ AppendToken
  \/ YieldToken
  \/ Finish
  \/ \E a \in Anchors : NitStr(a)

SpecNit == Init /\ [][NextNit]_vars

\* a plugin iterated over a constructed file
NextPlugin ==
  \/ SkipToken
  \/ StartToken
  \/ AppendToken
  \/ YieldToken
  \/ Finish
  \/ \E f \in LineFilters : NewPlugin(f)
  \/ \E a \in NitAnchors : IterUnfiltered(a)
  \/ \E a \in NitAnchors : IterFiltered(a)
  \/ IterStop

InitPlugin == Init /\ LineCount(blob) <= MaxPluginLines

SpecPlugin == InitPlugin /\ [][NextPlugin]_vars

\* the Indentation plugin run over a constructed file
NextIndent ==
  \/ SkipToken
  \/ StartToken
  \/ AppendToken
  \/ YieldToken
  \/ Finish
  \/ StartIndentation
  \/ IndentToken
  \/ DedentToken
  \/ OtherToken
  \/ IndentationDone

SpecIndent == Init /\ [][NextIndent]_vars

\* ------------------------------------------------------------ statements
\* The statements of a blob as (first line, last line): a one-line
\* statement, or a parenthesized one from its opening to its closing line.
CloseOf(b, s) ==
  CHOOSE e \in s..LineCount(b) :
    /\ b.lines[e].kind = "close"
    /\ \A j \in s..(e - 1) : b.lines[j].kind # "close"

StmtSpans(b) ==
  {<<s, s>> : s \in {i \in 1..LineCount(b) : b.lines[i].kind \in {"stmt", "header"}}}
    \cup {<<s, CloseOf(b, s)>> :
            s \in {i \in 1..LineCount(b) : b.lines[i].kind = "open"}}

\* the statement ending on line e has a terminator token
HasTerminator(b, e) == e < LineCount(b) \/ b.finalEol \/ implicit

NoLogicalContent(b) ==
  \A i \in 1..LineCount(b) : b.lines[i].kind \in {"blank", "comment"}

Span(n, m) == [err |-> FALSE, start |-> n, stop |-> m]

\* ---------------------------------------------------------------- claims

\* C1: for every line number n within the file, line_range(n) returns
\* [start, stop) with 1 <= start < stop and stop <= line count + 1.
C1_LineRangeWithinFile ==
  (result.op = "line_range" /\ ~result.range.err) =>
    /\ 1 <= result.range.start
    /\ result.range.start < result.range.stop
    /\ result.range.stop <= LineCount(blob) + 1

Covering(n) == {i \in 1..Len(yielded) : yielded[i][1] <= n /\ n < yielded[i][2]}

OtherLines == {k \in 1..LineCount(blob) : Covering(k) = {}}

FallbackCovering(n) ==
  {k \in OtherLines :
     LET r == line_range(k) IN ~r.err /\ r.start <= n /\ n < r.stop}

\* C2: the spans iter_logical_lines emits are in strictly ascending start
\* order and pairwise non-overlapping, and together with the single-line
\* fallback spans of all other lines they cover every physical line
\* exactly once.
C2_SpansPartitionLines ==
  pc = "done" =>
    /\ \A i \in 1..(Len(yielded) - 1) :
         /\ yielded[i][1] < yielded[i + 1][1]
         /\ yielded[i][2] <= yielded[i + 1][1]
    /\ \A n \in 1..LineCount(blob) :
         Cardinality(Covering(n)) + Cardinality(FallbackCovering(n)) = 1

QueryOutcome(r) ==
  r.op \in {"line_range", "getitem"} =>
    /\ r.range.err <=> (r.n <= 0 \/ r.n > LineCount(blob))
    /\ r.range.err => r.range = [err |-> TRUE]
    /\ (r.range.err /\ r.op = "getitem") => r.text = <<>>

\* C3: line_range(n) and file[n] signal an out-of-range error, and return
\* no span or text, exactly when n <= 0 or n > line count; the query
\* leaves the file unchanged.
C3_OutOfRangeSignalled ==
  [][result' # result => (UNCHANGED fileVars /\ QueryOutcome(result'))]_vars

C3_Witness ==
  /\ result.op = "getitem"
  /\ result.range.err
  /\ result.n = LineCount(blob) + 1
  /\ LineCount(blob) >= 2

\* C4: a statement first..last with a terminator is exactly one logical
\* line (first, last + 1, indent); line_range(first) is [first, last + 1)
\* and each continuation line k has the fallback [k, k + 1).
C4_StatementSpan ==
  pc = "done" =>
    \A sp \in StmtSpans(blob) :
      HasTerminator(blob, sp[2]) =>
        /\ Cardinality({i \in 1..Len(yielded) : yielded[i][1] = sp[1]}) = 1
        /\ sp[1] \in DOMAIN logical_lines
        /\ logical_lines[sp[1]][1] = sp[1]
        /\ logical_lines[sp[1]][2] = sp[2] + 1
        /\ line_range(sp[1]) = Span(sp[1], sp[2] + 1)
        /\ \A k \in (sp[1] + 1)..sp[2] : line_range(k) = Span(k, k + 1)

\* C6: resolving a Nit whose anchor is set to a line outside the file
\* (n <= 0, n = 0 included, or n > line count) signals an error.
C6_BadAnchorSignalled ==
  (/\ result.op = "nit"
   /\ result.anchor # None
   /\ (Value(result.anchor) <= 0 \/ Value(result.anchor) > LineCount(blob)))
    => result.err

\* C7: the indent of every logical line is the width of the leading
\* whitespace of its first physical line.
C7_IndentIsLeadingWidth ==
  \A i \in 1..Len(yielded) :
    yielded[i][3] = blob.lines[yielded[i][1]].indent

\* C9: a logical line ended by a terminator token on line t has stop
\* t + 1 whatever the terminator's text; one ended by the end-of-input
\* marker reported at line m has stop m.
C9_StopFromTerminator ==
  [][Len(yielded') > Len(yielded) =>
       LET tok == tokens[pos']
           stop == Last(yielded')[2]
       IN /\ tok.type = NEWLINE => stop = tok.line + 1
          /\ tok.type = ENDMARKER => stop = tok.line]_vars

EndmarkerOnEmptyBuffer ==
  /\ Scanning
  /\ tokens[pos + 1].type = ENDMARKER
  /\ contents = <<>>
  /\ pos' = pos + 1

NoContentOutcome ==
  NoLogicalContent(blob) =>
    /\ pc # "error"
    /\ yielded = <<>>
    /\ DOMAIN logical_lines = {}
    /\ pc = "done" => \A n \in 1..LineCount(blob) : line_range(n) = Span(n, n + 1)

\* C10: a text with no logical content yields no triple and no error,
\* leaves the index empty and every line_range(n) the fallback [n, n + 1);
\* an end-of-input marker arriving on an empty buffer emits nothing.
C10_NoContentNoLines ==
  [][/\ EndmarkerOnEmptyBuffer => (yielded' = yielded /\ pc' = "scan")
     /\ NoContentOutcome']_vars

C10_Witness ==
  /\ pc = "done"
  /\ NoLogicalContent(blob)
  /\ LineCount(blob) >= 2
  /\ \E i \in 1..LineCount(blob) : blob.lines[i].kind = "comment"
  /\ result.op = "line_range"
  /\ result.range = Span(2, 3)

Passes(anchor) ==
  \/ anchor = None
  \/ affected_lines = None
  \/ LET r == line_range(Value(anchor)) IN
       /\ ~r.err
       /\ {line \in r.start..(r.stop - 1) : line \in Value(affected_lines)} # {}

\* C5: iterating a plugin yields exactly the nits of nits(), in order,
\* that have no anchor, or meet no restriction, or whose line_range holds
\* at least one affected line.
C5_FilteredSubsequence ==
  /\ ppc \in {"iter", "done"} => out = SelectSeq(emitted, Passes)
  /\ ppc = "error" => out = SelectSeq(Front(emitted), Passes)

\* a nit that passes only through its line range, then an unanchored one
C5_Witness ==
  /\ ppc = "done"
  /\ affected_lines # None
  /\ Len(emitted) = 2
  /\ emitted[1] # None
  /\ Value(emitted[1]) \notin Value(affected_lines)
  /\ emitted[2] = None
  /\ out = emitted

StmtLines(b) == {i \in 1..LineCount(b) : b.lines[i].kind \in {"stmt", "header", "open"}}

\* the header whose block the statement on line i opens, or 0
Opener(b, i) ==
  LET before == {j \in StmtLines(b) : j < i} IN
  IF before = {} THEN 0
  ELSE LET j == CHOOSE k \in before : \A m \in before : m <= k IN
       IF b.lines[j].kind = "header" THEN j ELSE 0

BadIndents(b) ==
  {i \in StmtLines(b) :
     Opener(b, i) # 0 /\ b.lines[i].indent - b.lines[Opener(b, i)].indent # 2}

RECURSIVE ExpectedNits(_, _, _)
ExpectedNits(b, i, seen) ==
  IF i > LineCount(b) THEN <<>>
  ELSE (IF i \in BadIndents(b) /\ i \in seen
          THEN <<[line |-> i,
                  observed |-> b.lines[i].indent - b.lines[Opener(b, i)].indent,
                  expected |-> 2]>>
          ELSE <<>>) \o ExpectedNits(b, i + 1, seen)

\* C8: Indentation.nits() yields, in token order, exactly one error per
\* INDENT token whose width differs from the enclosing block's width by
\* other than 2, at that token's line and reporting that delta against 2,
\* and never pops an empty stack.
C8_IndentationNits ==
  /\ ipc # "error"
  /\ ipc \in {"run", "done"} =>
       indent_nits = ExpectedNits(blob, 1, {tokens[j].line : j \in 1..ipos})

C8_Witness ==
  /\ ipc = "done"
  /\ indent_nits = <<[line |-> 2, observed |-> 4, expected |-> 2]>>
  /\ Cardinality({j \in 1..Len(tokens) : tokens[j].type = INDENT}) = 1

====
